---- MODULE Spec2Model ----
(***************************************************************************)
(* Gas Leak Prediction System (src/main.py): a Streamlit script that is    *)
(* re-run from top to bottom on every user interaction.  Each run          *)
(* (a "render") executes, in this order: init_db(), the five number        *)
(* inputs, the Predict button handler, the history read and display, and   *)
(* the Clear Alert History button handler.  The alert store is the SQLite  *)
(* file leak_alerts.db, which outlives the renders.                        *)
(***************************************************************************)
EXTENDS Integers, Sequences, FiniteSets, TLC

\* ---------------------------------------------------------------- bounds
MaxRate == 2        \* the regressor answers a rate in 1..MaxRate
MaxShift == 1       \* the scaler's fitted mean is in 1..MaxShift
MaxTicks == 1       \* the wall clock advances at most MaxTicks seconds
StartSecond == 59   \* wall-clock second (within the hour) of the first render
MaxId == 3          \* at most MaxId rows are ever inserted

\* ------------------------------------------------------- program constants
LeakLabel == 1      \* `leak_prediction == 1`
NoValue == "absent" \* a name the script has not bound in this run

VARIABLES
    scaler,                 \* scaler.pkl: the fitted mean subtracted from every column
    leak_detection_model,   \* leak_detection_model.pkl: scaled vector -> label
    leak_rate_model,        \* leak_rate_model.pkl: scaled vector -> rate
    db,                     \* leak_alerts.db: [schema, alerts, sqlite_sequence]
    now,                    \* wall clock, in seconds
    pc,                     \* position of the running script
    CH4L, CH4R, P, RsL, RsR,\* values of the five number inputs
    buttonPredict,          \* value returned by st.button("Predict") in this run
    buttonClear,            \* value returned by st.button("Clear Alert History")
    test_input,             \* the scaled vector
    leak_prediction,        \* classifier label
    leak_rate,              \* regressor output
    alerts,                 \* result of get_alerts() in this run
    shown,                  \* status elements written to the page in this run
    calls,                  \* estimator calls made in this run
    issued                  \* history: every id the store has ever assigned

vars == <<scaler, leak_detection_model, leak_rate_model, db, now, pc,
          CH4L, CH4R, P, RsL, RsR, buttonPredict, buttonClear,
          test_input, leak_prediction, leak_rate, alerts, shown, calls, issued>>

\* ---------------------------------------------------------------- helpers
Max(a, b) == IF a >= b THEN a ELSE b

RECURSIVE MaxRowid(_)
MaxRowid(rs) == IF rs = <<>> THEN 0 ELSE Max(Head(rs).id, MaxRowid(Tail(rs)))

RowSet(rs) == {rs[i] : i \in 1..Len(rs)}

\* The form offers non-negative readings: the all-zero default and a vector
\* whose five columns differ pairwise.
Readings == {<<0, 0, 0, 0, 0>>, <<1, 2, 3, 4, 5>>}

\* Labels the classifier may answer: no leak, leak, and one other value.
Labels == {0, LeakLabel, 2}
Rates == 1..MaxRate

\* scaler.transform: every column is centred on the fitted mean.
transform(v, mean) == [i \in 1..5 |-> v[i] - mean]

ScaledReadings(mean) == {transform(v, mean) : v \in Readings}

\* now().strftime("%Y-%m-%d %H:%M:%S"): zero-padded decimal fields; the
\* model keeps the minute and second fields (the others do not change
\* within the modelled window).
strftime(t) ==
    LET m == (t \div 60) % 60
        s == t % 60
    IN  <<m \div 10, m % 10, s \div 10, s % 10>>

\* SQLite compares TEXT values left to right, character by character.
RECURSIVE TextLess(_, _)
TextLess(a, b) ==
    IF b = <<>> THEN FALSE
    ELSE IF a = <<>> THEN TRUE
    ELSE IF Head(a) # Head(b) THEN Head(a) < Head(b)
    ELSE TextLess(Tail(a), Tail(b))

\* ------------------------------------------------------------ alert store
\* id INTEGER PRIMARY KEY AUTOINCREMENT: one more than the largest rowid the
\* table has ever held (kept in sqlite_sequence), not only of the rows left.
NextIdReuse(d) == MaxRowid(d.alerts) + 1

NextId(d) == Max(d.sqlite_sequence, MaxRowid(d.alerts)) + 1

\* CREATE TABLE IF NOT EXISTS alerts (...)
init_db_recreate(d) ==
    [schema |-> <<"alerts">>, alerts |-> <<>>, sqlite_sequence |-> 0]

init_db(d) ==
    IF \E i \in 1..Len(d.schema) : d.schema[i] = "alerts"
    THEN d
    ELSE [d EXCEPT !.schema = Append(d.schema, "alerts")]

\* INSERT INTO alerts (timestamp, CH4L, CH4R, P, RsL, RsR, leak_rate) VALUES (...)
save_alert_swapped(d, t, aCH4L, aCH4R, aP, aRsL, aRsR, aRate) ==
    [d EXCEPT
       !.alerts = Append(d.alerts,
            [id |-> NextId(d), timestamp |-> strftime(t),
             CH4L |-> aCH4R, CH4R |-> aCH4L, P |-> aP,
             RsL |-> aRsL, RsR |-> aRsR, leak_rate |-> aRate]),
       !.sqlite_sequence = NextId(d)]

save_alert_dedup(d, t, aCH4L, aCH4R, aP, aRsL, aRsR, aRate) ==
    IF \E i \in 1..Len(d.alerts) :
          /\ d.alerts[i].CH4L = aCH4L /\ d.alerts[i].CH4R = aCH4R
          /\ d.alerts[i].P = aP /\ d.alerts[i].RsL = aRsL
          /\ d.alerts[i].RsR = aRsR /\ d.alerts[i].leak_rate = aRate
    THEN d
    ELSE [d EXCEPT
           !.alerts = Append(d.alerts,
                [id |-> NextId(d), timestamp |-> strftime(t),
                 CH4L |-> aCH4L, CH4R |-> aCH4R, P |-> aP,
                 RsL |-> aRsL, RsR |-> aRsR, leak_rate |-> aRate]),
           !.sqlite_sequence = NextId(d)]

save_alert(d, t, aCH4L, aCH4R, aP, aRsL, aRsR, aRate) ==
    [d EXCEPT
       !.alerts = Append(d.alerts,
            [id |-> NextId(d), timestamp |-> strftime(t),
             CH4L |-> aCH4L, CH4R |-> aCH4R, P |-> aP,
             RsL |-> aRsL, RsR |-> aRsR, leak_rate |-> aRate]),
       !.sqlite_sequence = NextId(d)]

\* SELECT * FROM alerts ORDER BY timestamp DESC: every arrangement of the
\* rows whose timestamps do not increase; SQL leaves the order of rows with
\* equal timestamps open, so all such arrangements are possible results.
Arrangements(n) ==
    {f \in [1..n -> 1..n] : \A i, j \in 1..n : i # j => f[i] # f[j]}

get_alerts(d) ==
    LET rs == d.alerts
        n  == Len(rs)
    IN  {[i \in 1..n |-> rs[f[i]]] :
            f \in {g \in Arrangements(n) :
                     \A i \in 1..(n - 1) :
                        ~TextLess(rs[g[i]].timestamp, rs[g[i + 1]].timestamp)}}

\* DELETE FROM alerts (sqlite_sequence is left alone)
clear_alerts_oldest(d) ==
    [d EXCEPT !.alerts = IF d.alerts = <<>> THEN <<>> ELSE Tail(d.alerts)]

clear_alerts(d) == [d EXCEPT !.alerts = <<>>]

\* ------------------------------------------------------------ the script
\* Order of the top-level statements of the script.
ScriptOrderClearFirst == <<"init_db", "inputs", "predict", "clear", "history", "done">>

ScriptOrder == <<"init_db", "inputs", "predict", "history", "clear", "done">>

StepAfter(p) ==
    LET i == CHOOSE k \in 1..Len(ScriptOrder) : ScriptOrder[k] = p
    IN  ScriptOrder[i + 1]

\* The classifier label that means "leak".
IsLeakAny(label) == label # 0

IsLeak(label) == label = LeakLabel

Init ==
    /\ scaler \in 1..MaxShift
    /\ leak_detection_model \in [ScaledReadings(scaler) -> Labels]
    /\ leak_rate_model \in [ScaledReadings(scaler) -> Rates]
    /\ db = [schema |-> <<>>, alerts |-> <<>>, sqlite_sequence |-> 0]
    /\ now = StartSecond
    /\ pc = "init_db"
    /\ CH4L = 0 /\ CH4R = 0 /\ P = 0 /\ RsL = 0 /\ RsR = 0
    /\ buttonPredict = FALSE
    /\ buttonClear = FALSE
    /\ test_input = NoValue
    /\ leak_prediction = NoValue
    /\ leak_rate = NoValue
    /\ alerts = NoValue
    /\ shown = <<>>
    /\ calls = <<>>
    /\ issued = {}

models == <<scaler, leak_detection_model, leak_rate_model>>
form == <<CH4L, CH4R, P, RsL, RsR>>
locals == <<test_input, leak_prediction, leak_rate>>

\* The wall clock advances by one second.
Tick ==
    /\ now < StartSecond + MaxTicks
    /\ now' = now + 1
    /\ UNCHANGED <<models, db, pc, form, buttonPredict, buttonClear,
                   locals, alerts, shown, calls, issued>>

\* init_db() at the top of the script
InitDb ==
    /\ pc = "init_db"
    /\ db' = init_db(db)
    /\ pc' = StepAfter(pc)
    /\ UNCHANGED <<models, now, form, buttonPredict, buttonClear,
                   locals, alerts, shown, calls, issued>>

\* the five st.number_input widgets
Inputs ==
    /\ pc = "inputs"
    /\ \E v \in Readings :
          /\ CH4L' = v[1] /\ CH4R' = v[2] /\ P' = v[3]
          /\ RsL' = v[4] /\ RsR' = v[5]
    /\ pc' = StepAfter(pc)
    /\ UNCHANGED <<models, db, now, buttonPredict, buttonClear,
                   locals, alerts, shown, calls, issued>>

\* if st.button("Predict"): ...
PredictHandler ==
    /\ pc = "predict"
    /\ \E pressed \in BOOLEAN :
          /\ buttonPredict' = pressed
          /\ IF pressed
             THEN LET scaled == transform(<<CH4L, CH4R, P, RsL, RsR>>, scaler)
                      label  == leak_detection_model[scaled]
                  IN  /\ test_input' = scaled
                      /\ leak_prediction' = label
                      /\ IF IsLeak(label)
                         THEN /\ db.sqlite_sequence < MaxId
                              /\ leak_rate' = leak_rate_model[scaled]
                              /\ calls' = calls \o <<[model |-> "leak_detection_model", arg |-> scaled],
                                                     [model |-> "leak_rate_model", arg |-> scaled]>>
                              /\ shown' = Append(shown, "error")
                              /\ db' = save_alert(db, now, CH4L, CH4R, P, RsL, RsR,
                                                  leak_rate_model[scaled])
                         ELSE /\ calls' = Append(calls, [model |-> "leak_detection_model", arg |-> scaled])
                              /\ shown' = Append(shown, "success")
                              /\ UNCHANGED <<leak_rate, db>>
             ELSE UNCHANGED <<locals, calls, shown, db>>
    /\ issued' = issued \cup {db'.alerts[i].id : i \in 1..Len(db'.alerts)}
    /\ pc' = StepAfter(pc)
    /\ UNCHANGED <<models, now, form, buttonClear, alerts>>

\* alerts = get_alerts(); table or placeholder
HistoryDisplay ==
    /\ pc = "history"
    /\ \E res \in get_alerts(db) :
          /\ alerts' = res
          /\ shown' = Append(shown, IF res # <<>> THEN "dataframe" ELSE "info")
    /\ pc' = StepAfter(pc)
    /\ UNCHANGED <<models, db, now, form, buttonPredict, buttonClear,
                   locals, calls, issued>>

\* if st.button("Clear Alert History"): ...
ClearHandler ==
    /\ pc = "clear"
    /\ \E pressed \in BOOLEAN :
          /\ buttonClear' = pressed
          /\ IF pressed
             THEN /\ db' = clear_alerts(db)
                  /\ shown' = Append(shown, "warning")
             ELSE UNCHANGED <<db, shown>>
    /\ pc' = StepAfter(pc)
    /\ UNCHANGED <<models, now, form, buttonPredict, locals, alerts, calls, issued>>

\* The next user interaction re-runs the script from the top; the widgets
\* keep their values, every other name of the script is unbound again.
Rerun ==
    /\ pc = "done"
    /\ pc' = ScriptOrder[1]
    /\ buttonPredict' = FALSE
    /\ buttonClear' = FALSE
    /\ test_input' = NoValue
    /\ leak_prediction' = NoValue
    /\ leak_rate' = NoValue
    /\ alerts' = NoValue
    /\ shown' = <<>>
    /\ calls' = <<>>
    /\ UNCHANGED <<models, db, now, form, issued>>

Next ==
    \/ Tick
    \/ InitDb
    \/ Inputs
    \/ PredictHandler
    \/ HistoryDisplay
    \/ ClearHandler
    \/ Rerun

Spec == Init /\ [][Next]_vars

TypeOK ==
    /\ pc \in {"init_db", "inputs", "predict", "history", "clear", "done"}
    /\ db.sqlite_sequence \in 0..MaxId
    /\ Len(db.alerts) <= MaxId
    /\ now \in StartSecond..(StartSecond + MaxTicks)

\* ------------------------------------------------------------ properties
\* What the loaded classifier and regressor answer for the current form values.
FormScaled == transform(<<CH4L, CH4R, P, RsL, RsR>>, scaler)
FormLabel == leak_detection_model[FormScaled]
FormRate == leak_rate_model[FormScaled]

\* The step is the Predict handler running with the button pressed.
PredictPressed == pc = "predict" /\ buttonPredict'
\* The step is the Clear handler running with the button pressed.
ClearPressed == pc = "clear" /\ buttonClear'
\* The old rows are all still there, unchanged and in place.
RowsKept == /\ Len(db'.alerts) >= Len(db.alerts)
            /\ \A i \in 1..Len(db.alerts) : db'.alerts[i] = db.alerts[i]
LastRow(d) == d.alerts[Len(d.alerts)]

\* C1: a record is stored exactly for the Predict actions whose classifier
\* label is 1: every stored record's input vector is labelled 1, a pressed
\* Predict with label 1 adds one record, a Predict with any other label (or
\* not pressed) leaves the store as it is, and nothing else adds a record.
C1_Inv ==
    \A r \in RowSet(db.alerts) :
        leak_detection_model[transform(<<r.CH4L, r.CH4R, r.P, r.RsL, r.RsR>>, scaler)]
            = LeakLabel
C1_Step ==
    /\ (PredictPressed /\ FormLabel = LeakLabel)
          => Len(db'.alerts) = Len(db.alerts) + 1 /\ RowsKept
    /\ (PredictPressed /\ FormLabel # LeakLabel) => db' = db
    /\ (pc = "predict" /\ ~buttonPredict') => db' = db
    /\ Len(db'.alerts) > Len(db.alerts) => PredictPressed /\ FormLabel = LeakLabel
C1_RecordIffPositiveLabel == []C1_Inv /\ [][C1_Step]_vars
C1_Witness ==
    /\ pc = "history" /\ buttonPredict /\ leak_prediction = LeakLabel
    /\ Len(db.alerts) >= 1
    /\ LastRow(db).CH4L = CH4L

\* C2: in a render whose Predict handler has just appended a record, the
\* history read that follows returns that record as its first element, also
\* when an older record carries the same timestamp.
C2_NewRecordIsFirst ==
    (pc = "clear" /\ buttonPredict /\ leak_prediction = LeakLabel)
        => /\ alerts # <<>>
           /\ <<alerts[1].CH4L, alerts[1].CH4R, alerts[1].P, alerts[1].RsL, alerts[1].RsR>>
                 = <<CH4L, CH4R, P, RsL, RsR>>
           /\ alerts[1].leak_rate = leak_rate

\* C3: once the Clear handler has run clear_alerts, get_alerts returns the
\* empty sequence and nothing else, whatever the store held before.
C3_ClearThenListEmpty ==
    (pc = "done" /\ buttonClear) => get_alerts(db) = {<<>>}
C3_Witness ==
    /\ pc = "done" /\ buttonClear
    /\ Len(alerts) >= 2
    /\ get_alerts(db) = {<<>>}

\* C4: a pressed Predict calls the classifier exactly once, on the scaled
\* vector, and calls the regressor (once, on the same vector) if and only if
\* the label is 1; the outcome is (leak, rate) for label 1 and (no leak,
\* no rate) for every other label.
CallsTo(m) == {i \in 1..Len(calls) : calls[i].model = m}
C4_PredictOutcome ==
    IF pc \in {"history", "clear", "done"} /\ buttonPredict
    THEN /\ test_input = FormScaled
         /\ Cardinality(CallsTo("leak_detection_model")) = 1
         /\ \A i \in 1..Len(calls) : calls[i].arg = test_input
         /\ leak_prediction = leak_detection_model[test_input]
         /\ IF leak_prediction = LeakLabel
            THEN /\ Cardinality(CallsTo("leak_rate_model")) = 1
                 /\ leak_rate = leak_rate_model[test_input]
                 /\ shown[1] = "error"
            ELSE /\ CallsTo("leak_rate_model") = {}
                 /\ leak_rate = NoValue
                 /\ shown[1] = "success"
    ELSE pc \in {"history", "clear", "done"}
            => calls = <<>> /\ leak_prediction = NoValue /\ leak_rate = NoValue
C4_Witness ==
    /\ pc = "history" /\ buttonPredict
    /\ leak_prediction \notin {0, LeakLabel}
    /\ leak_rate = NoValue
    /\ Len(calls) = 1

\* C5: on a positive detection the appended record holds the five raw form
\* values, each in its own column, and the regressor's answer for the scaled
\* form vector as leak_rate.
C5_Step ==
    (PredictPressed /\ FormLabel = LeakLabel)
        => /\ db'.alerts # <<>>
           /\ LastRow(db').id \notin {db.alerts[i].id : i \in 1..Len(db.alerts)}
           /\ LastRow(db').CH4L = CH4L
           /\ LastRow(db').CH4R = CH4R
           /\ LastRow(db').P = P
           /\ LastRow(db').RsL = RsL
           /\ LastRow(db').RsR = RsR
           /\ LastRow(db').leak_rate = leak_rate_model[transform(<<CH4L, CH4R, P, RsL, RsR>>, scaler)]
C5_RawValuesStored == [][C5_Step]_vars
C5_Witness ==
    /\ pc = "history" /\ buttonPredict /\ leak_prediction = LeakLabel
    /\ CH4L # CH4R
    /\ test_input[1] # CH4L
    /\ LastRow(db).CH4L = CH4L /\ LastRow(db).CH4R = CH4R
    /\ LastRow(db).leak_rate = leak_rate

\* C6: every append adds exactly one row, with an id no other row has, also
\* when a row with the same timestamp, inputs and leak rate is already there.
SameButId(r, q) ==
    /\ r.id # q.id /\ r.timestamp = q.timestamp /\ r.leak_rate = q.leak_rate
    /\ <<r.CH4L, r.CH4R, r.P, r.RsL, r.RsR>> = <<q.CH4L, q.CH4R, q.P, q.RsL, q.RsR>>
C6_Step ==
    (PredictPressed /\ FormLabel = LeakLabel)
        => /\ Len(db'.alerts) = Len(db.alerts) + 1
           /\ \A i, j \in 1..Len(db'.alerts) :
                 i # j => db'.alerts[i].id # db'.alerts[j].id
C6_AppendAddsOneRow == [][C6_Step]_vars
C6_Witness ==
    /\ pc = "history" /\ buttonPredict /\ leak_prediction = LeakLabel
    /\ Len(db.alerts) = MaxId
    /\ \A i, j \in 1..Len(db.alerts) :
          i # j => SameButId(db.alerts[i], db.alerts[j])

\* C7: a stored record is never changed, and it leaves the store only when
\* the Clear handler runs, which removes all records at once.
C7_Step ==
    \/ RowsKept
    \/ ClearPressed /\ db'.alerts = <<>>
C7_RecordsImmutable == [][C7_Step]_vars
C7_Witness ==
    /\ pc = "done" /\ ~buttonClear /\ ~buttonPredict
    /\ Len(db.alerts) >= 2
    /\ db.alerts[1].timestamp # db.alerts[2].timestamp
    /\ db.sqlite_sequence > Len(db.alerts)

\* C8: init_db is idempotent: it leaves a store that has the table as it
\* is (schema, records and id counter), after it the schema holds the table
\* exactly once, and running it twice gives what running it once gives.
TableCount(d) == Cardinality({i \in 1..Len(d.schema) : d.schema[i] = "alerts"})
C8_Inv ==
    /\ TableCount(init_db(db)) = 1
    /\ init_db(init_db(db)) = init_db(db)
    /\ TableCount(db) <= 1
    /\ TableCount(db) = 1 => init_db(db) = db
C8_Step ==
    (pc = "init_db" /\ pc' # pc)
        => /\ db'.alerts = db.alerts
           /\ db'.sqlite_sequence = db.sqlite_sequence
           /\ TableCount(db') = 1
           /\ TableCount(db) = 1 => db' = db
C8_InitIdempotent == []C8_Inv /\ [][C8_Step]_vars
C8_Witness ==
    /\ pc = "inputs"
    /\ Len(db.alerts) >= 2
    /\ TableCount(db) = 1

\* C9: every append gets an id greater than every id the store has assigned
\* before, the ids of records removed by a clear included, and the rows of
\* the table carry increasing ids in insertion order.
C9_Step ==
    \A r \in RowSet(db'.alerts) \ RowSet(db.alerts) :
        \A i \in issued : r.id > i
C9_Inv ==
    /\ \A i, j \in 1..Len(db.alerts) : i < j => db.alerts[i].id < db.alerts[j].id
    /\ \A r \in RowSet(db.alerts) : r.id \in issued
C9_IdsNeverReused == []C9_Inv /\ [][C9_Step]_vars
C9_Witness ==
    /\ pc = "history" /\ buttonPredict /\ leak_prediction = LeakLabel
    /\ Len(db.alerts) = 1
    /\ db.alerts[1].id = MaxId
    /\ Cardinality(issued) = MaxId

\* C10: within one render the Predict handler runs before the history read
\* and the history read before the Clear handler: a record appended by this
\* render's Predict is in the table this render displays, a render whose
\* Clear is pressed has displayed the records the store held before the
\* clear (the table, not the placeholder, when there were any) together with
\* the cleared message, and the history read shows the placeholder exactly
\* when the store is empty at that point, as it is after a clear.
Before(a, b) ==
    \A i, j \in 1..Len(shown) : (shown[i] = a /\ shown[j] = b) => i < j
Shows(a) == \E i \in 1..Len(shown) : shown[i] = a
C10_Inv ==
    /\ (pc \in {"clear", "done"} /\ buttonPredict /\ leak_prediction = LeakLabel)
          => /\ Shows("dataframe") \/ Shows("info")
             /\ \E i \in 1..Len(alerts) : alerts[i].id = db.sqlite_sequence
             /\ Shows("dataframe") /\ ~Shows("info")
    /\ (pc = "done" /\ buttonClear)
          => /\ Shows("dataframe") \/ Shows("info")
             /\ db.alerts = <<>>
             /\ Shows("warning")
             /\ Shows("dataframe") <=> alerts # <<>>
             /\ Shows("info") <=> alerts = <<>>
    /\ pc = "done"
          => /\ Shows("dataframe") \/ Shows("info")
             /\ \A a \in {"error", "success"}, b \in {"dataframe", "info"} :
                   Before(a, b) /\ Before(b, "warning")
C10_Step ==
    /\ ClearPressed
          => /\ Shows("dataframe") \/ Shows("info")
             /\ RowSet(alerts) = RowSet(db.alerts)
             /\ Len(alerts) = Len(db.alerts)
             /\ alerts' = alerts
    /\ (pc = "history" /\ pc' # pc)
          => /\ RowSet(alerts') = RowSet(db.alerts)
             /\ db.alerts = <<>> <=> shown'[Len(shown')] = "info"
C10_RenderOrder == []C10_Inv /\ [][C10_Step]_vars
C10_Witness ==
    /\ pc = "done" /\ buttonClear
    /\ buttonPredict /\ leak_prediction = LeakLabel
    /\ Len(alerts) >= 2
    /\ db.alerts = <<>>
    /\ shown = <<"error", "dataframe", "warning">>
====
